---- MODULE Spec2Model ----
(***************************************************************************)
(* The search drivers of jeweler/search.py (bfs, lyndon, bracelet,         *)
(* necklace) and of the earlier jeweler/search.py (find_codes_lyndon) as   *)
(* one state machine.  One run of the machine is one call of one driver:   *)
(* Init draws the driver and its arguments, every action is one statement  *)
(* group of the driver (the code before the loop, one loop iteration, the  *)
(* code after the loop).                                                   *)
(*                                                                         *)
(* The objective function is opaque to the drivers: each scored code gets  *)
(* a score drawn from Scores.  Every enumerator yields pairwise distinct   *)
(* codes, so a pure objective is never asked twice about the same code.    *)
(***************************************************************************)
EXTENDS Integers, Sequences, FiniteSets, TLC

\* ------------------------------------------------------------------ bounds
MaxL == 6          \* longest code length a run is started with
MaxBfsL == 5       \* longest code length bfs is started with
MaxSpan == 1       \* largest L - K a run is started with
MaxScore == 2      \* scores are drawn from 1..MaxScore
MaxBatch == 3      \* largest batch, in codes, a run is started with

\* --------------------------------------------------------------- constants
NegInf == -1       \* -np.inf: below every score and every stored score
Ulp == 3           \* spacing of the values a float32 cell can hold
Alphabet == 2      \* LengthLimitedLyndonWords(2, ...): binary words

None == "None"
\* None where a code is expected, and the slot of a length that has no entry
NoCode == <<>>
NoEntry == [code |-> NoCode]
Scores == 1..MaxScore

Drivers == {"bfs", "lyndon", "find_codes_lyndon", "bracelet", "necklace"}
LyndonDrivers == {"lyndon", "find_codes_lyndon"}
ChunkDrivers == {"bracelet", "necklace"}

\* density as a fraction <<numerator, denominator>>.  Each one is exact in
\* binary floating point, so n * density is computed without rounding.
Densities == {<<0, 1>>, <<1, 4>>, <<1, 2>>, <<1, 1>>}
\* densities whose weight leaves 0..L: only bfs decides by itself what
\* happens then (the other drivers hand the weight to their generator).
BfsDensities == Densities \cup {<<-1, 2>>, <<3, 2>>}

\* ------------------------------------------------------- Python arithmetic
\* a // b for b # 0: floor division
FloorDiv(a, b) == IF b > 0 THEN a \div b ELSE (-a) \div (-b)

\* int(x) of the float x = num / den, den > 0: truncation toward zero
IntTrunc(num, den) == IF num >= 0 THEN num \div den ELSE -((-num) \div den)

\* np.ceil(a / b).astype(int), b > 0
CeilDiv(a, b) == -((-a) \div b)

Max(a, b) == IF a >= b THEN a ELSE b

RECURSIVE Factorial(_)
Factorial(n) == IF n = 0 THEN 1 ELSE n * Factorial(n - 1)

RECURSIVE SumSeq(_)
SumSeq(s) == IF s = <<>> THEN 0 ELSE Head(s) + SumSeq(Tail(s))

RECURSIVE Flatten(_)
Flatten(ss) == IF ss = <<>> THEN <<>> ELSE Head(ss) \o Flatten(Tail(ss))

Range(s) == {s[j] : j \in 1..Len(s)}

\* the value a float32 cell holds after a float64 score is stored in it:
\* the nearest representable value (representable values are Ulp apart)
Float32(x) == Ulp * ((x + 1) \div Ulp)

\* score > score_best
Better(score, best) == score > best

\* np.argmin in the place of np.argmax
ArgMin(scores) ==
    CHOOSE b \in 1..Len(scores) :
        /\ \A j \in 1..Len(scores) : scores[j] >= scores[b]
        /\ \A j \in 1..(b - 1) : scores[j] > scores[b]

\* np.argmax(scores), 1-based: the first index holding the maximum
ArgMax(scores) ==
    CHOOSE b \in 1..Len(scores) :
        /\ \A j \in 1..Len(scores) : scores[j] <= scores[b]
        /\ \A j \in 1..(b - 1) : scores[j] < scores[b]

\* int(n * density)
Weight(n, d) == IntTrunc(n * d[1], d[2])

\* -------------------------------------------------------------- enumerators
\* itertools.combinations(range(n), r), 0 <= r: the generator's state is the
\* tuple it yields next, or done.  r > n yields nothing.
CombInit(n, r) ==
    IF r > n THEN [idx |-> <<>>, done |-> TRUE]
    ELSE [idx |-> [j \in 1..r |-> j - 1], done |-> FALSE]

CombNext(idx, n, r) ==
    LET movable == {j \in 1..r : idx[j] # (j - 1) + n - r} IN
    IF movable = {} THEN [idx |-> <<>>, done |-> TRUE]
    ELSE LET p == CHOOSE j \in movable : \A q \in movable : q <= j IN
         [idx |-> [j \in 1..r |-> IF j < p THEN idx[j] ELSE idx[p] + 1 + (j - p)],
          done |-> FALSE]

\* list(itertools.islice(gen, count)): up to count tuples and the generator
\* left behind
RECURSIVE Islice(_, _, _, _)
Islice(gen, count, n, r) ==
    IF count = 0 \/ gen.done THEN [items |-> <<>>, gen |-> gen]
    ELSE LET rest == Islice(CombNext(gen.idx, n, r), count - 1, n, r) IN
         [items |-> <<gen.idx>> \o rest.items, gen |-> rest.gen]

\* codes = np.zeros([.., n]); codes[rows, indices] = 1: one row
IndicesToCode(idx, n) == [j \in 1..n |-> IF (j - 1) \in Range(idx) THEN 1 ELSE 0]

\* binary words of length n in lexicographic order are the numbers 0..2^n-1
Bits(v, n) == [j \in 1..n |-> (v \div (2 ^ (n - j))) % 2]
Value(s) == SumSeq([j \in 1..Len(s) |-> s[j] * 2 ^ (Len(s) - j)])
Rotate(s, r) == [j \in 1..Len(s) |-> s[((j - 1 + r) % Len(s)) + 1]]
Reverse(s) == [j \in 1..Len(s) |-> s[Len(s) + 1 - j]]
IsNecklaceWord(s) == \A r \in 1..Len(s) : Value(s) <= Value(Rotate(s, r))
IsBraceletWord(s) ==
    /\ IsNecklaceWord(s)
    /\ \A r \in 1..Len(s) : Value(s) <= Value(Rotate(Reverse(s), r))
AllWords(n) == [v \in 1..(2 ^ n) |-> Bits(v - 1, n)]
IsFixedBracelet(s, r) == SumSeq(s) = r /\ IsBraceletWord(s)
IsFixedNecklace(s, r) == SumSeq(s) = r /\ IsNecklaceWord(s)

\* bracelet_fc(n, 2, [n - r, r]): the list of the bracelets of n - r zeros
\* and r ones, one representative each
bracelet_fc(n, r) ==
    LET Keep(s) == IsFixedBracelet(s, r) IN SelectSeq(AllWords(n), Keep)

\* Necklaces([n - r, r]): the necklaces of n - r symbols 1 and r symbols 2
Necklaces(n, r) ==
    LET Keep(s) == IsFixedNecklace(s, r)
        words == SelectSeq(AllWords(n), Keep)
    IN [j \in 1..Len(words) |-> [p \in 1..n |-> words[j][p] + 1]]

\* LengthLimitedLyndonWords(2, n, w): w, then each word's successor among
\* the Lyndon words of length <= n; <<>> when there is none
LyndonNext(word, n) ==
    LET m == Len(word)
        x == [j \in 1..n |-> word[((j - 1) % m) + 1]]
        keep == {j \in 1..n : x[j] # Alphabet - 1}
    IN IF keep = {} THEN <<>>
       ELSE LET last == CHOOSE j \in keep : \A q \in keep : q <= j IN
            [j \in 1..last |-> IF j = last THEN x[j] + 1 ELSE x[j]]

\* ---------------------------------------------------------------- the state
VARIABLES
    driver, K, L, density, batch_size, filename,   \* the call's arguments
    pc,               \* "start", "length", "search", "done", "error"
    error,            \* the exception that ended the run, or None
    lengths,          \* bracelet, necklace: what is left of range(K, L + 1)
    len,              \* bracelet, necklace: the loop variable of for L in range(K, L + 1)
    i,                \* iterations of the batch loop done
    code_generator,   \* bfs: itertools.combinations(range(L), k)
    codes,            \* bracelet: the list not yet consumed
    ncodes,           \* bracelet, necklace: the number of codes of this length
    chunks,           \* necklace: the generator _necklace_chunk(codes, ..)
    w,                \* lyndon: the word the generator yields next
    code_best, score_best, num_searched_codes,
    archive,          \* per length: the last entry handed to the Archiver or
                      \* written to the length's file
    batches,          \* history: the batches drawn in the current search
    hist,             \* history: the best score so far and the first code,
                      \* in the enumerator's order, that has it
    seen_lengths,     \* history: the lengths a code was scored for
    step              \* history: what the last step did

vars == <<driver, K, L, density, batch_size, filename, pc, error, lengths, len, i,
          code_generator, codes, ncodes, chunks, w, code_best, score_best,
          num_searched_codes, archive, batches, hist, seen_lengths, step>>

args == <<driver, K, L, density, batch_size, filename>>
enumerators == <<code_generator, codes, ncodes, chunks, w, lengths>>

NoStep == [scored |-> 0, count |-> 0, improved |-> FALSE, updated |-> 0, word |-> NoCode]
NoHist == [max |-> NegInf, rank |-> 0, code |-> NoCode, of_best |-> NegInf]

\* the history after the codes batch[1..] with the given scores, the code
\* batch[j] being number rank0 + j of its enumeration: max is the greatest
\* score given so far, code the first code of the enumeration that got it
RECURSIVE HistAfter(_, _, _, _)
HistAfter(h, batch, scores, rank0) ==
    IF batch = <<>> THEN h
    ELSE LET r == rank0 + 1
             s == Head(scores)
             h1 == IF s > h.max \/ (s = h.max /\ r < h.rank)
                   THEN [h EXCEPT !.max = s, !.rank = r, !.code = Head(batch)]
                   ELSE h
         IN HistAfter(h1, Tail(batch), Tail(scores), r)

\* the score the objective gave to the code now recorded as best, looked up
\* by the code itself
ScoreGiven(h, recorded, batch, scores) ==
    IF \E j \in 1..Len(batch) : batch[j] = recorded
    THEN [h EXCEPT !.of_best = scores[CHOOSE j \in 1..Len(batch) : batch[j] = recorded]]
    ELSE h

\* bfs counts batch_size in bits, bracelet and necklace in codes; the other
\* drivers have no batch_size
BatchSizes(d, n) ==
    IF d = "bfs"
    THEN {-1, 0, 1} \cup {b * n + r : b \in 2..MaxBatch, r \in {0, 1}}
    ELSE IF d \in ChunkDrivers THEN -1..MaxBatch
    ELSE {1}

Init ==
    /\ driver \in Drivers
    /\ L \in IF driver = "bfs" THEN 1..MaxBfsL ELSE 1..MaxL
    /\ K \in IF driver = "bfs" THEN {L} ELSE Max(L - MaxSpan, 1)..(L + 1)
    /\ density \in IF driver = "bfs" THEN BfsDensities ELSE Densities
    /\ batch_size \in BatchSizes(driver, L)
    /\ filename \in IF driver = "bfs" THEN {None, "file"} ELSE {None}
    /\ pc = "start"
    /\ error = None
    /\ lengths = <<>>
    /\ len = 0
    /\ i = 0
    /\ code_generator = None
    /\ codes = <<>>
    /\ ncodes = 0
    /\ chunks = None
    /\ w = <<>>
    /\ code_best = NoCode
    /\ score_best = NegInf
    /\ num_searched_codes = 0
    /\ archive = [n \in 0..L |-> NoEntry]
    /\ batches = <<>>
    /\ hist = NoHist
    /\ seen_lengths = {}
    /\ step = NoStep

Raise(e) ==
    /\ pc' = "error"
    /\ error' = e
    /\ step' = NoStep

\* ----------------------------------------------------------------------- bfs
\* k = int(L * density)
k_bfs == Weight(L, density)
num_combinations == Factorial(L) \div (Factorial(k_bfs) * Factorial(L - k_bfs))
num_codes_in_batch == Max(FloorDiv(batch_size, L), 1)
\* the number of batches rounded down instead of up
num_batches_floor == num_combinations \div num_codes_in_batch

num_batches == CeilDiv(num_combinations, num_codes_in_batch)

\* lines 100-110: combinations() raises ValueError for k < 0, factorial()
\* for L - k < 0
BfsStart ==
    /\ driver = "bfs" /\ pc = "start"
    /\ IF k_bfs < 0 \/ k_bfs > L
       THEN /\ Raise("ValueError")
            /\ UNCHANGED <<args, len, i, enumerators, code_best, score_best,
                           num_searched_codes, archive, batches, hist, seen_lengths>>
       ELSE /\ code_generator' = CombInit(L, k_bfs)
            /\ code_best' = NoCode
            /\ score_best' = NegInf
            /\ num_searched_codes' = 0
            /\ i' = 0
            /\ len' = L
            /\ pc' = "search"
            /\ step' = NoStep
            /\ UNCHANGED <<args, error, codes, ncodes, chunks, w, lengths, archive,
                           batches, hist, seen_lengths>>

\* the best record replaced after every batch, with no comparison
BfsImprovesAlways(s) == TRUE

\* whether the best record is replaced by a batch whose best score is s
BfsImproves(s) == Better(s, score_best)

\* lines 113-137: one iteration of the batch loop
BfsBatch ==
    /\ driver = "bfs" /\ pc = "search" /\ i < num_batches
    /\ LET got == Islice(code_generator, num_codes_in_batch, L, k_bfs)
           indices == got.items
           batch == [j \in 1..Len(indices) |-> IndicesToCode(indices[j], L)]
       IN IF Len(indices) = 0
          THEN /\ pc' = "done"
               /\ step' = NoStep
               /\ UNCHANGED <<args, error, len, i, enumerators, code_best, score_best,
                              num_searched_codes, archive, batches, hist, seen_lengths>>
          ELSE \E score \in [1..Len(indices) -> Scores] :
               LET best == ArgMax(score)
                   improved == BfsImproves(score[best])
                   searched == num_searched_codes + Len(indices)
               IN /\ code_generator' = got.gen
                  /\ num_searched_codes' = searched
                  /\ code_best' = IF improved THEN batch[best] ELSE code_best
                  /\ score_best' = IF improved THEN score[best] ELSE score_best
                  /\ archive' = IF improved /\ filename # None
                                THEN [archive EXCEPT ![L] =
                                         [code |-> batch[best], searched |-> searched]]
                                ELSE archive
                  /\ i' = i + 1
                  /\ batches' = Append(batches, batch)
                  /\ hist' = ScoreGiven(HistAfter(hist, batch, score, num_searched_codes),
                                        code_best', batch, score)
                  /\ seen_lengths' = seen_lengths \cup {L}
                  /\ step' = [scored |-> L, count |-> Len(indices), improved |-> improved,
                              updated |-> IF improved /\ filename # None THEN L ELSE 0,
                              word |-> NoCode]
                  /\ UNCHANGED <<args, pc, error, len, codes, ncodes, chunks, w, lengths>>

\* line 138: return code_best
BfsReturn ==
    /\ driver = "bfs" /\ pc = "search" /\ i = num_batches
    /\ pc' = "done"
    /\ step' = NoStep
    /\ UNCHANGED <<args, error, len, i, enumerators, code_best, score_best,
                   num_searched_codes, archive, batches, hist, seen_lengths>>

\* ------------------------------------------- lyndon and find_codes_lyndon
\* num_allowed_ones[n] = int(n * density)
num_allowed_ones(n) == Weight(n, density)

\* w = [0] * (L - num_allowed_ones[-1]) + [1] * num_allowed_ones[-1]
FirstWord ==
    [j \in 1..L |-> IF j <= L - num_allowed_ones(L) THEN 0 ELSE 1]

\* lines 66-71: the per-length statistics and the word the search starts at
LyndonStart ==
    /\ driver \in LyndonDrivers /\ pc = "start"
    /\ score_best' = [n \in 0..L |-> NegInf]
    /\ num_searched_codes' = [n \in 0..L |-> 0]
    /\ w' = FirstWord
    /\ hist' = [n \in 0..L |-> NoHist]
    /\ i' = 0
    /\ pc' = "search"
    /\ step' = NoStep
    /\ UNCHANGED <<args, error, len, code_generator, codes, ncodes, chunks, lengths,
                   code_best, archive, batches, seen_lengths>>

\* the weight test left out
LyndonEligibleAnyWeight(code) == Len(code) >= K

\* len(code) >= K and np.sum(code) == num_allowed_ones[len(code)]
LyndonEligible(code) ==
    /\ Len(code) >= K
    /\ SumSeq(code) = num_allowed_ones(Len(code))

\* score > score_best[len(code)]
LyndonImproves(score, n) == Better(score, score_best[n])

\* the entry of an improvement: f.update(name, code, score, weight=..) in
\* lyndon, the text of the file <len(code)>.txt in find_codes_lyndon
LyndonEntry(code, score, searched) ==
    IF driver = "lyndon"
    THEN [code |-> code, score |-> score, weight |-> num_allowed_ones(Len(code))]
    ELSE [code |-> code, score |-> score, searched |-> searched]

\* lines 74-83: one word of the generator
LyndonWord ==
    /\ driver \in LyndonDrivers /\ pc = "search" /\ w # <<>>
    /\ LET code == w
           n == Len(code)
       IN IF LyndonEligible(code)
          THEN \E score \in Scores :
               LET improved == LyndonImproves(score, n)
                   searched == num_searched_codes[n] + 1
               IN /\ num_searched_codes' = [num_searched_codes EXCEPT ![n] = searched]
                  /\ score_best' = IF improved
                                   THEN [score_best EXCEPT ![n] = Float32(score)]
                                   ELSE score_best
                  /\ archive' = IF improved
                                THEN [archive EXCEPT ![n] = LyndonEntry(code, score, searched)]
                                ELSE archive
                  /\ hist' = [hist EXCEPT ![n] = HistAfter(hist[n], <<code>>, <<score>>, i)]
                  /\ seen_lengths' = seen_lengths \cup {n}
                  /\ batches' = Append(batches, <<code>>)
                  /\ step' = [scored |-> n, count |-> 1, improved |-> improved,
                              updated |-> IF improved THEN n ELSE 0, word |-> code]
          ELSE /\ step' = [NoStep EXCEPT !.word = code]
               /\ UNCHANGED <<score_best, num_searched_codes, archive, hist,
                              seen_lengths, batches>>
    /\ w' = LyndonNext(w, L)
    /\ i' = i + 1
    /\ UNCHANGED <<args, pc, error, len, code_generator, codes, ncodes, chunks,
                   lengths, code_best>>

\* the generator is exhausted: the loop and the driver end
LyndonReturn ==
    /\ driver \in LyndonDrivers /\ pc = "search" /\ w = <<>>
    /\ pc' = "done"
    /\ step' = NoStep
    /\ UNCHANGED <<args, error, len, i, enumerators, code_best, score_best,
                   num_searched_codes, archive, batches, hist, seen_lengths>>

\* ---------------------------------------------------- bracelet and necklace
\* k = int(L * density), L the loop variable
k_len == Weight(len, density)

\* the batch loop without the + 1
NumIterationsNoExtra(count, size) == FloorDiv(count, size)

\* range(len(codes) // batch_size + 1), range(ncodes // batch_size + 1)
NumIterations(count, size) == FloorDiv(count, size) + 1

\* the lengths from the longest down: reversed(range(a, b + 1))
LengthRangeDescending(a, b) == [j \in 1..(b - a + 1) |-> b - j + 1]

\* range(a, b + 1)
LengthRange(a, b) == [j \in 1..(b - a + 1) |-> a + j - 1]

\* with Archiver(output_dir=output_dir) as f: for L in range(K, L + 1):
ChunkStart ==
    /\ driver \in ChunkDrivers /\ pc = "start"
    /\ lengths' = LengthRange(K, L)
    /\ pc' = "length"
    /\ step' = NoStep
    /\ UNCHANGED <<args, error, len, i, code_generator, codes, ncodes, chunks, w,
                   code_best, score_best, num_searched_codes, archive, batches, hist,
                   seen_lengths>>

\* chunks = _necklace_chunk(codes, (batch_size, L)): nothing runs before the
\* first next(chunks)
NecklaceChunkInit(necklaces) == [rest |-> necklaces, done |-> FALSE]

\* lines 170-178, 248-259: the enumeration of one length and the range of
\* its batch loop; a batch_size of 0 raises ZeroDivisionError there
ChunkLength ==
    /\ driver \in ChunkDrivers /\ pc = "length" /\ lengths # <<>>
    /\ len' = Head(lengths)
    /\ lengths' = Tail(lengths)
    /\ LET n == Head(lengths)
           list == IF driver = "bracelet" THEN bracelet_fc(n, Weight(n, density))
                   ELSE Necklaces(n, Weight(n, density))
       IN /\ codes' = IF driver = "bracelet" THEN list ELSE codes
          /\ chunks' = IF driver = "necklace" THEN NecklaceChunkInit(list) ELSE chunks
          /\ ncodes' = Len(list)
    /\ code_best' = NoCode
    /\ score_best' = NegInf
    /\ IF batch_size = 0
       THEN /\ Raise("ZeroDivisionError")
            /\ UNCHANGED <<i, batches, hist>>
       ELSE /\ i' = 0
            /\ batches' = <<>>
            /\ hist' = NoHist
            /\ pc' = "search"
            /\ step' = NoStep
            /\ UNCHANGED error
    /\ UNCHANGED <<args, code_generator, w, num_searched_codes, archive,
                   seen_lengths>>

\* range(K, L + 1) is exhausted: the with block and the driver end
ChunkReturn ==
    /\ driver \in ChunkDrivers /\ pc = "length" /\ lengths = <<>>
    /\ pc' = "done"
    /\ step' = NoStep
    /\ UNCHANGED <<args, error, len, i, enumerators, code_best, score_best,
                   num_searched_codes, archive, batches, hist, seen_lengths>>

\* batch = codes[-batch_size:], batch_size >= 1: the last batch_size codes,
\* all of them when there are fewer
TailSlice(list, size) ==
    LET from == Max(Len(list) - size, 0) IN SubSeq(list, from + 1, Len(list))

\* del codes[-batch_size:]
DelTailSlice(list, size) == SubSeq(list, 1, Max(Len(list) - size, 0))

\* chunk - 1, one row: the symbols 1, 2 of a necklace become the bits 0, 1
MinusOne(x) == [p \in 1..Len(x) |-> x[p] - 1]

\* next(chunks) for chunksize[0] = size >= 1: the generator fills a chunk
\* from the necklaces and yields it when it is full; when the necklaces run
\* out it yields the rows filled so far and ends
NecklaceChunkNext(gen, size) ==
    IF gen.done THEN [stop |-> TRUE, chunk |-> <<>>, gen |-> gen]
    ELSE IF Len(gen.rest) >= size
    THEN [stop |-> FALSE,
          chunk |-> [j \in 1..size |-> MinusOne(gen.rest[j])],
          gen |-> [rest |-> SubSeq(gen.rest, size + 1, Len(gen.rest)), done |-> FALSE]]
    ELSE [stop |-> FALSE,
          chunk |-> [j \in 1..Len(gen.rest) |-> MinusOne(gen.rest[j])],
          gen |-> [rest |-> <<>>, done |-> TRUE]]

\* scores[best] > score_best
ChunkImproves(s) == Better(s, score_best)

\* lines 181-185, 261-265 for a drawn batch whose first code is number
\* rank0 + 1 of the enumeration: np.argmax raises ValueError on no scores
ScoreBatch(batch, rank0) ==
    IF Len(batch) = 0
    THEN /\ Raise("ValueError")
         /\ batches' = Append(batches, batch)
         /\ UNCHANGED <<i, code_best, score_best, hist, seen_lengths>>
    ELSE \E scores \in [1..Len(batch) -> Scores] :
         LET best == ArgMax(scores)
             improved == ChunkImproves(scores[best])
         IN /\ code_best' = IF improved THEN batch[best] ELSE code_best
            /\ score_best' = IF improved THEN scores[best] ELSE score_best
            /\ i' = i + 1
            /\ batches' = Append(batches, batch)
            /\ hist' = ScoreGiven(HistAfter(hist, batch, scores, rank0),
                                  code_best', batch, scores)
            /\ seen_lengths' = seen_lengths \cup {len}
            /\ step' = [scored |-> len, count |-> Len(batch), improved |-> improved,
                        updated |-> 0, word |-> NoCode]
            /\ UNCHANGED <<pc, error>>

\* lines 179-185: one iteration of bracelet's batch loop
BraceletBatch ==
    /\ driver = "bracelet" /\ pc = "search"
    /\ i < NumIterations(ncodes, batch_size)
    /\ LET batch == TailSlice(codes, batch_size) IN
       /\ codes' = DelTailSlice(codes, batch_size)
       /\ ScoreBatch(batch, Len(codes) - Len(batch))
    /\ UNCHANGED <<args, len, lengths, code_generator, ncodes, chunks, w,
                   num_searched_codes, archive>>

\* lines 260-265: one iteration of necklace's batch loop; next() on an ended
\* generator raises StopIteration
NecklaceBatch ==
    /\ driver = "necklace" /\ pc = "search"
    /\ i < NumIterations(ncodes, batch_size)
    /\ LET got == NecklaceChunkNext(chunks, batch_size) IN
       IF got.stop
       THEN /\ Raise("StopIteration")
            /\ UNCHANGED <<chunks, i, code_best, score_best, batches, hist, seen_lengths>>
       ELSE /\ chunks' = got.gen
            /\ ScoreBatch(got.chunk, ncodes - Len(chunks.rest))
    /\ UNCHANGED <<args, len, lengths, code_generator, codes, ncodes, w,
                   num_searched_codes, archive>>

\* lines 187-192, 267-272: the batch loop is over; the length's best is
\* handed to the Archiver and the next length begins
ChunkUpdate ==
    /\ driver \in ChunkDrivers /\ pc = "search"
    /\ i >= NumIterations(ncodes, batch_size)
    /\ archive' = [archive EXCEPT ![len] =
                      [code |-> code_best, score |-> score_best, weight |-> k_len]]
    /\ pc' = "length"
    /\ step' = [NoStep EXCEPT !.updated = len]
    /\ UNCHANGED <<args, error, len, i, enumerators, code_best, score_best,
                   num_searched_codes, batches, hist, seen_lengths>>

Next ==
    \/ BfsStart \/ BfsBatch \/ BfsReturn
    \/ LyndonStart \/ LyndonWord \/ LyndonReturn
    \/ ChunkStart \/ ChunkLength \/ ChunkReturn
    \/ BraceletBatch \/ NecklaceBatch \/ ChunkUpdate

Spec == Init /\ [][Next]_vars

\* ------------------------------------------------------------------- claims
\* floor(n * density)
FloorMul(n, d) == (n * d[1]) \div d[2]

\* the binomial coefficient C(n, r), by Pascal's rule
RECURSIVE Binomial(_, _)
Binomial(n, r) ==
    IF r < 0 \/ r > n THEN 0
    ELSE IF r = 0 \/ r = n THEN 1
    ELSE Binomial(n - 1, r - 1) + Binomial(n - 1, r)

NoDuplicates(s) == \A a, b \in 1..Len(s) : a # b => s[a] # s[b]

\* the codes scored so far in the current search, in the order scored
Scored == Flatten(batches)

\* C1: in lyndon, bracelet and necklace every step that strictly improves a
\* length's best score also hands the new best to the Archiver, so that at
\* every point of the run the last entry handed over for a length is that
\* length's current best record.
C1_UpdateFollowsEachImprovement ==
    driver \in {"lyndon", "bracelet", "necklace"} =>
        /\ step.improved => step.updated = step.scored
        /\ (driver = "lyndon" /\ pc \in {"search", "done"}) =>
              \A n \in 0..L : score_best[n] # NegInf =>
                  /\ archive[n] # NoEntry
                  /\ Float32(archive[n].score) = score_best[n]
        /\ (driver \in ChunkDrivers /\ pc = "search" /\ score_best # NegInf) =>
              /\ archive[len] # NoEntry
              /\ archive[len].code = code_best
              /\ archive[len].score = score_best

\* C2: when a search is complete, the code recorded as best is the first
\* code, in the enumerator's order, among the codes with the greatest score.
C2_TieKeepsFirstOfEnumeration ==
    /\ (driver = "bfs" /\ pc = "done" /\ hist.code # NoCode) => code_best = hist.code
    /\ (driver \in ChunkDrivers /\ step.updated # 0 /\ hist.code # NoCode) =>
          archive[step.updated].code = hist.code
    /\ (driver \in LyndonDrivers /\ pc = "done") =>
          \A n \in 0..L : hist[n].code # NoCode =>
              archive[n] # NoEntry /\ archive[n].code = hist[n].code

\* C3: every processed batch of bfs and every scored word of lyndon leaves
\* the recorded best score greater than or equal to what it was and makes
\* the count of searched codes strictly greater.
C3_Step ==
    (i' = i + 1 /\ step'.scored # 0) =>
        /\ driver = "bfs" =>
              /\ score_best' >= score_best
              /\ num_searched_codes' > num_searched_codes
        /\ driver \in LyndonDrivers =>
              /\ \A n \in 0..L : score_best'[n] >= score_best[n]
              /\ num_searched_codes'[step'.scored] > num_searched_codes[step'.scored]
C3_Monotonic == [][C3_Step]_vars

C3_Witness ==
    driver = "bfs" /\ i >= 2 /\ step.scored # 0 /\ step.improved

\* C4: bfs with 0 <= density <= 1 and batch_size >= 1 draws batches of at
\* most max(floor(batch_size / L), 1) codes, all but the last of exactly
\* that size; when it returns it has counted C(L, k) codes, k =
\* floor(L * density), and scored every k-subset of the positions once, in
\* lexicographic order of the positions of the ones.
C4_BfsBatchesCoverCombinations ==
    (/\ driver = "bfs" /\ batch_size >= 1 /\ pc \in {"search", "done"}
     /\ 0 <= density[1] /\ density[1] <= density[2]) =>
        LET size == Max(batch_size \div L, 1)
            k == FloorMul(L, density)
        IN /\ \A b \in 1..Len(batches) :
                 /\ Len(batches[b]) <= size
                 /\ b < Len(batches) => Len(batches[b]) = size
           /\ pc = "done" =>
                 /\ num_searched_codes = Binomial(L, k)
                 /\ Len(Scored) = Binomial(L, k)
                 /\ Range(Scored) =
                        {Bits(v, L) : v \in {u \in 0..(2 ^ L - 1) : SumSeq(Bits(u, L)) = k}}
                 /\ \A a, b \in 1..Len(Scored) :
                        a < b => Value(Scored[a]) > Value(Scored[b])

C4_Witness ==
    /\ driver = "bfs" /\ pc = "done" /\ batch_size >= 1
    /\ num_codes_in_batch >= 2
    /\ Len(batches) >= 2
    /\ Len(batches[Len(batches)]) < num_codes_in_batch

\* C5: a driver called with K > L, with a density outside (0, 1) or with a
\* batch_size <= 0 never completes normally, scores no code and writes
\* nothing.
InvalidConfiguration ==
    \/ K > L
    \/ density[1] <= 0
    \/ density[1] >= density[2]
    \/ batch_size <= 0
C5_ConfigurationErrorsFailFast ==
    InvalidConfiguration =>
        /\ pc # "done"
        /\ seen_lengths = {}
        /\ \A n \in 0..L : archive[n] = NoEntry

\* the last step did not score or update a length below one scored before
NoOverlap ==
    \A m \in seen_lengths :
        /\ step.scored # 0 => m <= step.scored
        /\ step.updated # 0 => m <= step.updated

\* C6 as claimed: in every driver, whatever is scored or handed to the
\* Archiver for a length comes before the first scoring of a greater length.
C6_NoOverlapEveryDriver == NoOverlap

\* C6 as amended: the same for bfs, bracelet and necklace.
C6_NoOverlapLoopDrivers == driver \notin LyndonDrivers => NoOverlap

C6_Witness ==
    /\ driver \in ChunkDrivers /\ K < L
    /\ Cardinality(seen_lengths) = 2
    /\ step.updated = L

\* C7: the lyndon drivers score and count a word exactly when its length n
\* is at least K and it has floor(n * density) ones; such a word changes the
\* count, best score and entry of length n only, any other word changes
\* nothing, and nothing is ever recorded for a length below K.
C7_Step ==
    (driver \in LyndonDrivers /\ pc = "search" /\ w # <<>>) =>
        LET n == Len(w)
            eligible == n >= K /\ SumSeq(w) = FloorMul(n, density)
        IN /\ eligible <=> batches' = Append(batches, <<w>>)
           /\ eligible <=> num_searched_codes'[n] = num_searched_codes[n] + 1
           /\ ~eligible => /\ score_best' = score_best
                           /\ num_searched_codes' = num_searched_codes
                           /\ archive' = archive
           /\ \A m \in 0..L : m # n =>
                 /\ score_best'[m] = score_best[m]
                 /\ num_searched_codes'[m] = num_searched_codes[m]
                 /\ archive'[m] = archive[m]
           /\ \A m \in 0..L : m < K =>
                 /\ score_best'[m] = NegInf
                 /\ num_searched_codes'[m] = 0
                 /\ archive'[m] = NoEntry
C7_LyndonFilter == [][C7_Step]_vars

C7_Witness ==
    /\ driver = "lyndon" /\ seen_lengths # {}
    /\ step.word # NoCode /\ step.scored = 0
    /\ Len(step.word) >= K

\* C8: in bfs, bracelet and necklace, once a batch has been scored the
\* recorded best score is the greatest score given so far in this search,
\* the recorded best code is one of the codes scored, and the recorded score
\* is the score that code was given.
C8_BestIsMaximumOfScored ==
    (driver \in ChunkDrivers \cup {"bfs"} /\ pc # "start" /\ hist.max # NegInf) =>
        /\ score_best = hist.max
        /\ \E j \in 1..Len(Scored) : Scored[j] = code_best
        /\ hist.of_best = score_best

C8_Witness ==
    /\ driver = "necklace" /\ i >= 2
    /\ step.count >= 2 /\ ~step.improved
    /\ hist.rank > 1

\* C9: in bracelet and necklace with batch_size >= 1 every batch drawn holds
\* between 1 and batch_size codes, and no run ends in an exception.
C9_NoEmptyBatch ==
    (driver \in ChunkDrivers /\ batch_size >= 1) =>
        /\ \A b \in 1..Len(batches) :
              1 <= Len(batches[b]) /\ Len(batches[b]) <= batch_size
        /\ error = None

\* the codes of the current length, as the driver's enumerator lists them
Enumerated ==
    IF driver = "bracelet" THEN bracelet_fc(len, FloorMul(len, density))
    ELSE LET list == Necklaces(len, FloorMul(len, density))
         IN [j \in 1..Len(list) |-> MinusOne(list[j])]

\* C10: in bracelet and necklace with batch_size >= 1 no code is drawn
\* twice and next() never meets an ended generator; when the batch loop is
\* over, floor(N / batch_size) + 1 batches have been drawn, they hold every
\* code of the enumeration, bracelet's list is empty and necklace's
\* generator has yielded its last chunk.
C10_BatchesPartitionEnumeration ==
    (driver \in ChunkDrivers /\ batch_size >= 1 /\ pc # "start") =>
        /\ NoDuplicates(Scored)
        /\ error # "StopIteration"
        /\ (step.updated # 0 \/ error = "ValueError") =>
              /\ Len(batches) = (ncodes \div batch_size) + 1
              /\ Len(Scored) = ncodes
              /\ Range(Scored) = Range(Enumerated)
              /\ driver = "bracelet" => codes = <<>>
              /\ driver = "necklace" => chunks.done /\ chunks.rest = <<>>

C10_Witness ==
    /\ driver = "bracelet" /\ step.updated # 0
    /\ Len(batches) >= 2
    /\ ncodes % batch_size # 0
====
